---- MODULE Spec2Model ----
(***************************************************************************)
(* The `pulumi stack graph` command (pkg/cmd/pulumi/stack/stack_graph.go): *)
(* RunE loads the stack's snapshot, builds the dependency/parentage graph  *)
(* with makeDependencyGraph, creates the output file, has dotconv.Print    *)
(* write the graph and closes the file.                                    *)
(***************************************************************************)
EXTENDS Integers, Sequences, FiniteSets, TLC

\* ------------------------------------------------------------------------
\* Bounds of the input space.
\* ------------------------------------------------------------------------

\* Largest number of references (entries of Dependencies and of the
\* PropertyDependencies lists, plus non-empty Parent fields) in a snapshot.
MaxRefs == 4

\* The URNs a snapshot may define or refer to, in a fixed order.  A snapshot
\* defines the first n of them, so that a reference to a later one has no
\* vertex.
URNOrder == <<"a", "b">>

URNs == {URNOrder[i] : i \in 1..Len(URNOrder)}

\* resource.URN(""): "no parent".
NoURN == ""

\* The property keys of PropertyDependencies.
Props == {"p", "q"}

\* A nil *dependencyVertex: the result of a map lookup that misses, and the
\* `from` of a root edge.
NilVertex == "<nil>"

\* Flag defaults of --dependency-edge-color and --parent-edge-color.
dependencyEdgeColor == "#246C60"

parentEdgeColor == "#AA6639"

\* ------------------------------------------------------------------------
\* Helpers on sequences.
\* ------------------------------------------------------------------------

RECURSIVE SeqsOfLen(_, _)
SeqsOfLen(S, n) ==
  IF n = 0 THEN {<<>>}
  ELSE {Append(s, x) : s \in SeqsOfLen(S, n - 1), x \in S}

Range(s) == {s[i] : i \in 1..Len(s)}

\* All orders in which a range loop may visit the keys of a map.
Orders(S) == {s \in SeqsOfLen(S, Cardinality(S)) : Range(s) = S}

\* Number of entries of the sequence s that equal x.
Occurrences(s, x) == Cardinality({i \in 1..Len(s) : s[i] = x})

\* ------------------------------------------------------------------------
\* Inputs: resource.State records and deploy.Snapshot resource lists.
\* ------------------------------------------------------------------------

\* The PropertyDependencies maps (property key -> list of URNs) whose lists
\* hold exactly w entries in all.  A key with an empty list stands for an
\* absent key as well: the range loop does nothing for either.
RECURSIVE PropertyMaps(_, _)
PropertyMaps(keys, w) ==
  IF keys = {} THEN (IF w = 0 THEN {<<>>} ELSE {})
  ELSE LET k == CHOOSE k \in keys : TRUE
       IN UNION { { (k :> l) @@ f :
                      l \in SeqsOfLen(URNs, n),
                      f \in PropertyMaps(keys \ {k}, w - n) } :
                  n \in 0..w }

\* The resource.State records with URN u that hold exactly w references:
\* entries of Dependencies and of the PropertyDependencies lists, and a
\* non-empty Parent.
ResourcesOfWeight(u, w) ==
  UNION { UNION {
    { [URN |-> u, Dependencies |-> d, PropertyDependencies |-> pd, Parent |-> x] :
        d \in SeqsOfLen(URNs, wd),
        pd \in PropertyMaps(Props, w - wd - (IF x = NoURN THEN 0 ELSE 1)) } :
    wd \in 0..(w - (IF x = NoURN THEN 0 ELSE 1)) } :
  x \in URNs \cup {NoURN} }

ResourceTable ==
  [u \in URNs, w \in 0..MaxRefs |-> ResourcesOfWeight(u, w)]

\* ------------------------------------------------------------------------
\* State.
\* ------------------------------------------------------------------------

VARIABLES
  opts,      \* cmdOpts: the parsed flags (graphCommandOptions)
  pc,        \* the statement of RunE that runs next
  snap,      \* RunE's local `snap`: the loaded snapshot
  vertices,  \* dg.vertices inside makeDependencyGraph: URN -> dependencyVertex
  pending,   \* the vertices the range loop of lines 269-303 has yet to visit
  built,     \* makeDependencyGraph has returned dg to RunE
  file,      \* the output file: "none", "open" or "closed"
  trace,     \* the calls RunE has made so far, in order
  result,    \* what RunE returned: "running" until it returns
  first      \* the graph an earlier run of the command built, if any

vars == <<opts, pc, snap, vertices, pending, built, file, trace, result, first>>

\* `snap` before s.Snapshot has been called, and a nil *deploy.Snapshot.
NotLoaded == [kind |-> "not loaded", Resources |-> <<>>]

NilSnapshot == [kind |-> "nil", Resources |-> <<>>]

LoadedSnapshot(resources) == [kind |-> "snapshot", Resources |-> resources]

\* make(map[resource.URN]*dependencyVertex)
EmptyVertices == [u \in {} |-> 0]

NoGraph == [valid |-> FALSE, vertices |-> EmptyVertices]

\* ------------------------------------------------------------------------
\* makeDependencyGraph.
\* ------------------------------------------------------------------------

\* dg.vertices[urn]: a *dependencyVertex is named by the key it is stored
\* under; a lookup that misses yields nil.
Lookup(vs, urn) == IF urn \in DOMAIN vs THEN urn ELSE NilVertex

\* &dependencyVertex{graph: dg, resource: resource, ...}
NewVertex(res) ==
  [resource |-> res, incomingEdges |-> <<>>, outgoingEdges |-> <<>>]

\* Lines 259-267: dg.vertices[resource.URN] = vertex for every resource.
RECURSIVE AllocateVertices(_, _, _)
AllocateVertices(vs, resources, i) ==
  IF i > Len(resources) THEN vs
  ELSE LET res == resources[i]
       IN AllocateVertices(
            [k \in DOMAIN vs \cup {res.URN} |->
               IF k = res.URN THEN NewVertex(res) ELSE vs[k]],
            resources, i + 1)

\* A slip of line 276: the property name replaces the names blamed so far.
OverwriteBlame(blame, dep, k) == [blame EXCEPT ![dep] = <<k>>]

\* Line 276: depBlame[dep] = append(depBlame[dep], string(k)).
AppendBlame(blame, dep, k) == [blame EXCEPT ![dep] = Append(@, k)]

\* Lines 275-277: the loop over the dependencies of property k.
RECURSIVE BlameDeps(_, _, _, _)
BlameDeps(blame, k, deps, i) ==
  IF i > Len(deps) THEN blame
  ELSE BlameDeps(AppendBlame(blame, deps[i], k), k, deps, i + 1)

\* Lines 274-278: the range loop over PropertyDependencies, visiting the keys
\* in the order `order`.
RECURSIVE BlameKeys(_, _, _, _)
BlameKeys(blame, pd, order, j) ==
  IF j > Len(order) THEN blame
  ELSE BlameKeys(BlameDeps(blame, order[j], pd[order[j]], 1), pd, order, j + 1)

\* Lines 273-278.  A key that is absent from the Go map reads as a nil slice.
depBlame(res, order) ==
  BlameKeys([d \in URNs |-> <<>>], res.PropertyDependencies, order, 1)

\* Line 284.  The pointer of an edge is named by the place that allocates
\* it: the vertex being visited and the index in its Dependencies list.
dependencyEdge(u, i, from, labels) ==
  [ptr |-> <<u, i>>, kind |-> "dependency", to |-> u, from |-> from,
   labels |-> labels, color |-> dependencyEdgeColor]

\* Lines 296-300.
parentEdge(u, parentVertex) ==
  [ptr |-> <<u, 0>>, kind |-> "parent", to |-> parentVertex, from |-> u,
   color |-> parentEdgeColor]

\* A slip of line 285: the edge goes on the incoming list of its source.
AppendIncomingOfSource(vs, u, edge) ==
  [vs EXCEPT ![IF edge.from = NilVertex THEN u ELSE edge.from].incomingEdges =
     Append(@, edge)]

\* Line 285.
AppendIncoming(vs, u, edge) ==
  [vs EXCEPT ![u].incomingEdges = Append(@, edge)]

\* A slip of line 286: the source's outgoing list is left alone.
AppendOutgoingSkipped(vs, vertexWeDependOn, edge) == vs

\* Line 286, with vertexWeDependOn non-nil.
AppendOutgoing(vs, vertexWeDependOn, edge) ==
  [vs EXCEPT ![vertexWeDependOn].outgoingEdges = Append(@, edge)]

\* Lines 282-287, from the i-th dependency on.  Line 286 dereferences
\* vertexWeDependOn: a nil pointer panics there, after line 285 has run.
RECURSIVE AddDependencyEdges(_, _, _, _)
AddDependencyEdges(vs, u, blame, i) ==
  LET deps == vs[u].resource.Dependencies
  IN IF i > Len(deps) THEN [vertices |-> vs, panicked |-> FALSE]
     ELSE LET dep == deps[i]
              vertexWeDependOn == Lookup(vs, dep)
              edge == dependencyEdge(u, i, vertexWeDependOn, blame[dep])
              vs1 == AppendIncoming(vs, u, edge)
          IN IF vertexWeDependOn = NilVertex
             THEN [vertices |-> vs1, panicked |-> TRUE]
             ELSE AddDependencyEdges(
                    AppendOutgoing(vs1, vertexWeDependOn, edge), u, blame, i + 1)

\* Lines 270-288.
DependencyStep(vs, u, order) ==
  IF ~opts.ignoreDependencyEdges
  THEN AddDependencyEdges(vs, u, depBlame(vs[u].resource, order), 1)
  ELSE [vertices |-> vs, panicked |-> FALSE]

\* A slip of lines 296-300: the parent edge is put on the parent's incoming
\* list as well.
AppendParentEdgeBothEnds(vs, u, parentVertex) ==
  LET edge == parentEdge(u, parentVertex)
      vs1 == [vs EXCEPT ![u].outgoingEdges = Append(@, edge)]
  IN IF parentVertex = NilVertex THEN vs1
     ELSE [vs1 EXCEPT ![parentVertex].incomingEdges = Append(@, edge)]

\* Lines 296-300: the parent edge goes on the child's outgoing list.
AppendParentEdge(vs, u, parentVertex) ==
  [vs EXCEPT ![u].outgoingEdges = Append(@, parentEdge(u, parentVertex))]

\* A slip of line 293: the parent edges follow the wrong toggle.
ParentStepWrongToggle(vs, u) ==
  LET parent == vs[u].resource.Parent
  IN IF ~opts.ignoreDependencyEdges /\ parent # NoURN
     THEN [vs EXCEPT ![u].outgoingEdges =
             Append(@, parentEdge(u, Lookup(vs, parent)))]
     ELSE vs

\* Lines 293-302.  The lookup of line 295 is not checked: a miss stores a
\* nil `to`.
ParentStep(vs, u) ==
  LET parent == vs[u].resource.Parent
  IN IF ~opts.ignoreParentEdges /\ parent # NoURN
     THEN AppendParentEdge(vs, u, Lookup(vs, parent))
     ELSE vs

\* A slip of lines 240-247: only the vertices without incoming edges get a
\* root edge.
RootsOfInDegreeZero(vs, order) ==
  LET roots == SelectSeq(order, LAMBDA v : vs[v].incomingEdges = <<>>)
  IN [i \in 1..Len(roots) |->
        [kind |-> "dependency", to |-> roots[i], from |-> NilVertex,
         labels |-> <<>>, color |-> ""]]

\* Lines 238-250: Roots(), the range loop visiting the vertices in the order
\* `order`.
Roots(vs, order) ==
  [i \in 1..Len(order) |->
     [kind |-> "dependency", to |-> order[i], from |-> NilVertex,
      labels |-> <<>>, color |-> ""]]

\* dependencyEdge.Label (lines 151-153) and parentEdge.Label (181-183).
RECURSIVE Join(_, _)
Join(elems, sep) ==
  IF Len(elems) = 0 THEN ""
  ELSE IF Len(elems) = 1 THEN elems[1]
  ELSE elems[1] \o sep \o Join(Tail(elems), sep)

Label(edge) ==
  IF edge.kind = "parent" THEN "" ELSE Join(edge.labels, ", ")

\* Lines 163-165 and 193-195.
Color(edge) == edge.color

\* Lines 219-228.
Ins(vs, v) == vs[v].incomingEdges

Outs(vs, v) == vs[v].outgoingEdges

\* ------------------------------------------------------------------------
\* RunE of newStackGraphCmd, statement by statement.
\* ------------------------------------------------------------------------

Return(r) == result' = r /\ pc' = "done"

\* Lines 76-87.
RequireStack ==
  /\ pc = "RequireStack"
  /\ trace' = Append(trace, "RequireStack")
  /\ \/ pc' = "Snapshot" /\ UNCHANGED result
     \/ Return("error: RequireStack")
  /\ UNCHANGED <<opts, snap, vertices, pending, built, file, first>>

\* The snapshot the backend hands out: n resources with the URNs
\* URNOrder[from], URNOrder[from + 1], ... holding at most `budget` references.
\* URNs are unique within a snapshot, and makeDependencyGraph stores the
\* resources in a map keyed by URN, so the list is given in URN order.
RECURSIVE PickResources(_, _, _, _)
PickResources(from, n, budget, acc) ==
  IF n = 0 THEN snap' = LoadedSnapshot(acc)
  ELSE \E w \in 0..budget :
         \E r \in ResourceTable[URNOrder[from], w] :
           PickResources(from + 1, n - 1, budget - w, Append(acc, r))

\* Lines 88-91: s.Snapshot returns an error, no snapshot, or a snapshot.
Snapshot ==
  /\ pc = "Snapshot"
  /\ trace' = Append(trace, "Snapshot")
  /\ \/ Return("error: Snapshot") /\ UNCHANGED snap
     \/ snap' = NilSnapshot /\ pc' = "check" /\ UNCHANGED result
     \/ /\ \E n \in 0..Len(URNOrder) : PickResources(1, n, MaxRefs, <<>>)
        /\ pc' = "check"
        /\ UNCHANGED result
  /\ UNCHANGED <<opts, vertices, pending, built, file, first>>

\* A slip of line 94: the nil check is left out.
SnapshotNeverMissing(s) == FALSE

\* Line 94.
SnapshotMissing(s) == s.kind = "nil"

\* Lines 93-96.
NoSnapshot ==
  /\ pc = "check"
  /\ SnapshotMissing(snap)
  /\ Return("error: unable to find snapshot")
  /\ UNCHANGED <<opts, snap, vertices, pending, built, file, trace, first>>

\* Line 98 and lines 255-267: makeDependencyGraph is called and allocates the
\* vertices.  snapshot.Resources on a nil snapshot panics.
MakeVertices ==
  /\ pc = "check"
  /\ ~SnapshotMissing(snap)
  /\ trace' = Append(trace, "makeDependencyGraph")
  /\ IF snap.kind = "nil"
     THEN Return("panic") /\ UNCHANGED <<vertices, pending>>
     ELSE /\ vertices' = AllocateVertices(EmptyVertices, snap.Resources, 1)
          /\ pending' = DOMAIN vertices'
          /\ pc' = "edges"
          /\ UNCHANGED result
  /\ UNCHANGED <<opts, snap, built, file, first>>

\* Lines 269-303: one iteration of the range loop over dg.vertices, which
\* visits the vertices in any order; so does the range loop over
\* PropertyDependencies inside it.
VisitVertex(u) ==
  /\ pc = "edges"
  /\ u \in pending
  /\ \E order \in Orders(Props) :
       LET deps == DependencyStep(vertices, u, order)
       IN IF deps.panicked
          THEN /\ vertices' = deps.vertices
               /\ Return("panic")
               /\ UNCHANGED pending
          ELSE /\ vertices' = ParentStep(deps.vertices, u)
               /\ pending' = pending \ {u}
               /\ UNCHANGED <<pc, result>>
  /\ UNCHANGED <<opts, snap, built, file, trace, first>>

\* Line 305 and line 98: the loop is over, dg is returned to RunE.
ReturnGraph ==
  /\ pc = "edges"
  /\ pending = {}
  /\ built' = TRUE
  /\ pc' = "Create"
  /\ UNCHANGED <<opts, snap, vertices, pending, file, trace, result, first>>

\* Lines 100-103.
Create ==
  /\ pc = "Create"
  /\ trace' = Append(trace, "os.Create")
  /\ \/ file' = "open" /\ pc' = "WriteGraph" /\ UNCHANGED result
     \/ Return("error: Create") /\ UNCHANGED file
  /\ UNCHANGED <<opts, snap, vertices, pending, built, first>>

\* A slip of lines 106-107: the error is returned with the file left open.
ReturnWithoutClose(err) ==
  /\ trace' = Append(trace, "dotconv.Print: error")
  /\ UNCHANGED file
  /\ Return(err)

\* Lines 106-107: the file is closed and the error of the write is returned.
CloseAndReturn(err) ==
  /\ trace' = trace \o <<"dotconv.Print: error", "file.Close">>
  /\ file' = "closed"
  /\ Return(err)

\* Lines 105-108: dotconv.Print writes the graph and returns nil or an error.
WriteGraph ==
  /\ pc = "WriteGraph"
  /\ \/ /\ trace' = Append(trace, "dotconv.Print: nil")
        /\ pc' = "Confirm"
        /\ UNCHANGED <<file, result>>
     \/ CloseAndReturn("error: Print")
  /\ UNCHANGED <<opts, snap, vertices, pending, built, first>>

\* Lines 110-111: the confirmation message.
Confirm ==
  /\ pc = "Confirm"
  /\ trace' = Append(trace, "cmd.Printf")
  /\ pc' = "Close"
  /\ UNCHANGED <<opts, snap, vertices, pending, built, file, result, first>>

\* Line 112: return file.Close().
Close ==
  /\ pc = "Close"
  /\ trace' = Append(trace, "file.Close")
  /\ file' = "closed"
  /\ \/ Return("nil")
     \/ Return("error: Close")
  /\ UNCHANGED <<opts, snap, vertices, pending, built, first>>

\* The flags are parsed before RunE runs (lines 115-129).
Init ==
  /\ opts \in [ignoreParentEdges : BOOLEAN, ignoreDependencyEdges : BOOLEAN]
  /\ pc = "RequireStack"
  /\ snap = NotLoaded
  /\ vertices = EmptyVertices
  /\ pending = {}
  /\ built = FALSE
  /\ file = "none"
  /\ trace = <<>>
  /\ result = "running"
  /\ first = NoGraph

Next ==
  \/ RequireStack
  \/ Snapshot
  \/ NoSnapshot
  \/ MakeVertices
  \/ \E u \in URNs : VisitVertex(u)
  \/ ReturnGraph
  \/ Create
  \/ WriteGraph
  \/ Confirm
  \/ Close

Spec == Init /\ [][Next]_vars

\* The command is run again on the same stack, whose snapshot has not changed
\* and with the same flags: makeDependencyGraph builds a second graph from
\* the same snapshot.  `first` keeps the graph of the first run.
Rebuild ==
  /\ pc = "done"
  /\ built
  /\ ~first.valid
  /\ first' = [valid |-> TRUE, vertices |-> vertices]
  /\ pc' = "check"
  /\ vertices' = EmptyVertices
  /\ pending' = {}
  /\ built' = FALSE
  /\ file' = "none"
  /\ trace' = <<>>
  /\ result' = "running"
  /\ UNCHANGED <<opts, snap>>

NextTwice == Next \/ Rebuild

SpecTwice == Init /\ [][NextTwice]_vars

\* ------------------------------------------------------------------------
\* Vocabulary of the properties.
\* ------------------------------------------------------------------------

\* The resources of the loaded snapshot.
Resources == Range(snap.Resources)

\* The vertices of the graph.
Vertices == DOMAIN vertices

\* Every edge some vertex holds in its incoming or outgoing list.
GraphEdges ==
  UNION {Range(Ins(vertices, v)) \cup Range(Outs(vertices, v)) : v \in Vertices}

IsDependencyEdge(e) == e.kind = "dependency"

IsParentEdge(e) == e.kind = "parent"

\* The dependency edges of the graph that run from vertex d to vertex r.
DependencyEdges(r, d) ==
  {e \in GraphEdges : IsDependencyEdge(e) /\ e.to = r /\ e.from = d}

\* The property names of resource res whose PropertyDependencies entry
\* contains d.
Blaming(res, d) ==
  {k \in Props : d \in Range(res.PropertyDependencies[k])}

\* ------------------------------------------------------------------------
\* C1
\* ------------------------------------------------------------------------

\* C1 as stated: with dependency edges not ignored, for every resource R and
\* every D in R's Dependencies, the returned graph holds exactly one
\* dependency edge with to = vertex(R) and from = vertex(D), and that edge is
\* in vertex(D)'s outgoing list and in vertex(R)'s incoming list.
C1_ExactlyOneEdgePerDependency ==
  (built /\ ~opts.ignoreDependencyEdges) =>
    \A r \in Resources : \A d \in Range(r.Dependencies) :
      /\ Cardinality(DependencyEdges(r.URN, d)) = 1
      /\ \A e \in DependencyEdges(r.URN, d) :
           /\ e \in Range(Outs(vertices, d))
           /\ e \in Range(Ins(vertices, r.URN))

\* C1 amended: with dependency edges not ignored, for every resource R and
\* every D, the returned graph holds as many dependency edges with
\* to = vertex(R) and from = vertex(D) as D has entries in R's Dependencies
\* (exactly one when D is listed once), and each of them is in vertex(D)'s
\* outgoing list and in vertex(R)'s incoming list.
C1_OneEdgePerDependencyEntry ==
  (built /\ ~opts.ignoreDependencyEdges) =>
    \A r \in Resources : \A d \in URNs :
      /\ Cardinality(DependencyEdges(r.URN, d)) = Occurrences(r.Dependencies, d)
      /\ \A e \in DependencyEdges(r.URN, d) :
           /\ e \in Range(Outs(vertices, d))
           /\ e \in Range(Ins(vertices, r.URN))

\* A graph was returned for a resource that lists another resource twice in
\* its Dependencies.
C1_Witness ==
  /\ built
  /\ ~opts.ignoreDependencyEdges
  /\ \E r \in Resources : \E d \in URNs :
       d # r.URN /\ Occurrences(r.Dependencies, d) = 2

\* ------------------------------------------------------------------------
\* C2
\* ------------------------------------------------------------------------

\* What the incoming list of vertex v holds when no resource has a parent:
\* the i-th entry is the dependency edge for the i-th entry of v's own
\* Dependencies.
IncomingFromDependenciesOnly(v) ==
  LET deps == IF opts.ignoreDependencyEdges THEN <<>>
              ELSE vertices[v].resource.Dependencies
      ins == Ins(vertices, v)
  IN /\ Len(ins) = Len(deps)
     /\ \A i \in 1..Len(ins) :
          /\ IsDependencyEdge(ins[i])
          /\ ins[i].ptr = <<v, i>>
          /\ ins[i].to = v
          /\ ins[i].from = deps[i]

\* C2: with parent edges not ignored, every resource R with a non-empty
\* parent X gets one parent edge with from = vertex(R) and to = vertex(X), in
\* vertex(R)'s outgoing list only; no incoming list holds a parent edge, and
\* vertex(X)'s incoming list is what it is without the parent.
C2_ParentEdgeOnChildOnly ==
  (built /\ ~opts.ignoreParentEdges) =>
    /\ \A r \in Resources : r.Parent # NoURN =>
         LET e == parentEdge(r.URN, Lookup(vertices, r.Parent))
         IN /\ Occurrences(Outs(vertices, r.URN), e) = 1
            /\ {p \in GraphEdges : IsParentEdge(p) /\ p.from = r.URN} = {e}
            /\ \A v \in Vertices :
                 /\ e \notin Range(Ins(vertices, v))
                 /\ v # r.URN => e \notin Range(Outs(vertices, v))
    /\ \A v \in Vertices : IncomingFromDependenciesOnly(v)

\* A graph was returned in which a resource has a parent that is another
\* resource of the snapshot, and that parent has real incoming edges.
C2_Witness ==
  /\ built
  /\ ~opts.ignoreParentEdges
  /\ \E r \in Resources :
       /\ r.Parent \in Vertices
       /\ r.Parent # r.URN
       /\ Len(Ins(vertices, r.Parent)) > 0

\* ------------------------------------------------------------------------
\* C3
\* ------------------------------------------------------------------------

\* C3 as stated: for every property P of R whose PropertyDependencies entry
\* contains D, the dependency edge built for D carries P; when two distinct
\* properties of R depend on D there is a single edge for D, carrying both
\* names; an edge for a D that no property names has no labels.
C3_SingleEdgeCarriesAllProperties ==
  (built /\ ~opts.ignoreDependencyEdges) =>
    \A r \in Resources : \A d \in Range(r.Dependencies) :
      /\ \A e \in DependencyEdges(r.URN, d) :
           /\ Blaming(r, d) \subseteq Range(e.labels)
           /\ Blaming(r, d) = {} => e.labels = <<>>
      /\ Cardinality(Blaming(r, d)) >= 2 =>
           Cardinality(DependencyEdges(r.URN, d)) = 1

\* C3 amended: for every property P of R whose PropertyDependencies entry
\* contains D, every dependency edge built for D carries P; when two distinct
\* properties of R depend on D, each edge for D carries both names, and
\* there is one such edge per entry D of R's Dependencies (a single one when
\* D is listed once); an edge for a D that no property names has no labels.
C3_EveryEdgeCarriesAllProperties ==
  (built /\ ~opts.ignoreDependencyEdges) =>
    \A r \in Resources : \A d \in Range(r.Dependencies) :
      /\ \A e \in DependencyEdges(r.URN, d) :
           /\ Blaming(r, d) \subseteq Range(e.labels)
           /\ Blaming(r, d) = {} => e.labels = <<>>
      /\ Cardinality(Blaming(r, d)) >= 2 =>
           Cardinality(DependencyEdges(r.URN, d)) = Occurrences(r.Dependencies, d)

\* A graph was returned for a resource two of whose properties depend on
\* one of its dependencies.
C3_Witness ==
  /\ built
  /\ ~opts.ignoreDependencyEdges
  /\ \E r \in Resources : \E d \in Range(r.Dependencies) :
       /\ Cardinality(Blaming(r, d)) = 2
       /\ \E e \in DependencyEdges(r.URN, d) : Len(e.labels) = 2

\* ------------------------------------------------------------------------
\* C4
\* ------------------------------------------------------------------------

\* C4: whatever order Roots() visits the vertices in, it returns exactly one
\* edge per vertex, with to = that vertex and from = nil, so there are as
\* many root edges as vertices, whether or not a vertex has incoming edges.
C4_OneRootEdgePerVertex ==
  built =>
    \A order \in Orders(Vertices) :
      LET rootEdges == Roots(vertices, order)
      IN /\ Len(rootEdges) = Cardinality(Vertices)
         /\ \A v \in Vertices :
              Cardinality({i \in 1..Len(rootEdges) : rootEdges[i].to = v}) = 1
         /\ \A i \in 1..Len(rootEdges) :
              /\ rootEdges[i].to \in Vertices
              /\ rootEdges[i].from = NilVertex

\* A graph of two vertices was returned, one of which has an incoming edge
\* from the other.
C4_Witness ==
  /\ built
  /\ Cardinality(Vertices) = 2
  /\ \E v \in Vertices : \E e \in Range(Ins(vertices, v)) : e.from # v

\* ------------------------------------------------------------------------
\* C5
\* ------------------------------------------------------------------------

\* The dependency edges the snapshot asks for: one per entry of a
\* Dependencies list, named by its pointer and its endpoints.
ExpectedDependencyEdges ==
  UNION {{<<<<r.URN, i>>, r.URN, r.Dependencies[i]>> :
            i \in 1..Len(r.Dependencies)} : r \in Resources}

\* The parent edges the snapshot asks for: one per non-empty Parent field.
ExpectedParentEdges ==
  {parentEdge(r.URN, Lookup(vertices, r.Parent)) :
     r \in {x \in Resources : x.Parent # NoURN}}

\* C5: with ignoreDependencyEdges set the returned graph has no dependency
\* edge (every incoming list is empty, no outgoing list holds a dependency
\* edge), with ignoreParentEdges set it has no parent edge; and each toggle
\* leaves the edges of the other kind alone: the dependency edges of a
\* returned graph are those of the Dependencies lists whatever
\* ignoreParentEdges is, the parent edges are those of the Parent fields
\* whatever ignoreDependencyEdges is.
C5_TogglesAreIndependent ==
  built =>
    /\ opts.ignoreDependencyEdges =>
         /\ \A v \in Vertices : Ins(vertices, v) = <<>>
         /\ \A e \in GraphEdges : ~IsDependencyEdge(e)
    /\ opts.ignoreParentEdges =>
         \A e \in GraphEdges : ~IsParentEdge(e)
    /\ ~opts.ignoreDependencyEdges =>
         {<<e.ptr, e.to, e.from>> : e \in {x \in GraphEdges : IsDependencyEdge(x)}}
           = ExpectedDependencyEdges
    /\ ~opts.ignoreParentEdges =>
         {e \in GraphEdges : IsParentEdge(e)} = ExpectedParentEdges

\* A graph was returned with dependency edges ignored, for a snapshot that
\* has both dependencies and a parent: it holds the parent edge.
C5_Witness ==
  /\ built
  /\ opts.ignoreDependencyEdges
  /\ ~opts.ignoreParentEdges
  /\ \E r \in Resources : r.Dependencies # <<>>
  /\ \E r \in Resources : r.Parent # NoURN
  /\ GraphEdges # {}

\* ------------------------------------------------------------------------
\* C6
\* ------------------------------------------------------------------------

\* A lookup of makeDependencyGraph misses: a dependency (line 283) or a
\* parent (line 295) that is looked up has no vertex.
LookupMisses ==
  \E r \in Resources :
    \/ /\ ~opts.ignoreDependencyEdges
       /\ \E d \in Range(r.Dependencies) : Lookup(vertices, d) = NilVertex
    \/ /\ ~opts.ignoreParentEdges
       /\ r.Parent # NoURN
       /\ Lookup(vertices, r.Parent) = NilVertex

\* C6 as stated: when a dependency or a parent has no vertex,
\* makeDependencyGraph fails and returns no graph; no returned graph has an
\* edge with a nil endpoint.
C6_LookupMissFailsLoudly ==
  built =>
    /\ ~LookupMisses
    /\ \A e \in GraphEdges : e.to # NilVertex /\ e.from # NilVertex

\* ------------------------------------------------------------------------
\* C7
\* ------------------------------------------------------------------------

\* C7: when s.Snapshot returns an error, or no snapshot, RunE returns an
\* error without calling makeDependencyGraph and without creating the file.
C7_NoSnapshotShortCircuits ==
  (result = "error: Snapshot" \/ snap.kind = "nil") =>
    /\ ~built
    /\ "makeDependencyGraph" \notin Range(trace)
    /\ "os.Create" \notin Range(trace)
    /\ file = "none"
    /\ vertices = EmptyVertices
    /\ pc = "done" =>
         result \in {"error: Snapshot", "error: unable to find snapshot"}

\* RunE has returned for a stack without a snapshot.
C7_Witness ==
  /\ pc = "done"
  /\ snap.kind = "nil"
  /\ result = "error: unable to find snapshot"

\* ------------------------------------------------------------------------
\* C8
\* ------------------------------------------------------------------------

\* The places of the event ev in the trace.
Places(ev) == {i \in 1..Len(trace) : trace[i] = ev}

Writes == Places("dotconv.Print: nil") \cup Places("dotconv.Print: error")

\* C8: in a run of the command the file is created at most once and written
\* at most once; once created it is closed exactly once by the time RunE
\* returns; after a failed write the close comes right after the write and
\* the error of the write is returned; after a successful write the close
\* comes after the confirmation message; the confirmation message is printed
\* only after a successful write.
C8_FileReleasedExactlyOnce ==
  /\ Cardinality(Places("os.Create")) <= 1
  /\ Cardinality(Writes) <= 1
  /\ Cardinality(Places("file.Close")) <= 1
  /\ file = "none" => Places("file.Close") = {} /\ Writes = {}
  /\ file = "closed" <=> Places("file.Close") # {}
  /\ \A i \in Writes \cup Places("file.Close") :
       \E j \in Places("os.Create") : j < i
  /\ (pc = "done" /\ file # "none") =>
       file = "closed" /\ Cardinality(Places("file.Close")) = 1
  /\ Places("dotconv.Print: error") # {} =>
       /\ Places("cmd.Printf") = {}
       /\ \A i \in Places("dotconv.Print: error") :
            i < Len(trace) /\ trace[i + 1] = "file.Close"
       /\ pc = "done"
       /\ result = "error: Print"
  /\ result = "error: Print" => Places("dotconv.Print: error") # {}
  /\ \A i \in Places("cmd.Printf") :
       /\ i > 1
       /\ trace[i - 1] = "dotconv.Print: nil"
       /\ \A j \in Places("file.Close") : i < j
  /\ result \in {"nil", "error: Close"} =>
       /\ Places("dotconv.Print: nil") # {}
       /\ Places("cmd.Printf") # {}
       /\ trace[Len(trace)] = "file.Close"

\* RunE has returned the error of a failed write.
C8_Witness ==
  /\ pc = "done"
  /\ result = "error: Print"
  /\ file = "closed"

\* ------------------------------------------------------------------------
\* C9
\* ------------------------------------------------------------------------

\* What an edge shows to the writer, and the pointer that names it.
Shown(e) == <<e.ptr, e.kind, e.to, e.from, Label(e), Color(e)>>

ShownEdges(list) == {Shown(list[i]) : i \in 1..Len(list)}

\* Two graphs have the same vertices and, at every vertex, incoming and
\* outgoing lists of the same lengths holding the same edges with the same
\* labels and colors, in whatever order.
SameGraph(g, h) ==
  /\ DOMAIN g = DOMAIN h
  /\ \A v \in DOMAIN g :
       /\ Len(Ins(g, v)) = Len(Ins(h, v))
       /\ Len(Outs(g, v)) = Len(Outs(h, v))
       /\ ShownEdges(Ins(g, v)) = ShownEdges(Ins(h, v))
       /\ ShownEdges(Outs(g, v)) = ShownEdges(Outs(h, v))

\* C9 as stated: a second makeDependencyGraph on the same snapshot with the
\* same options returns a graph with the same vertex and edge counts and the
\* same label and color on every edge; the iteration orders change the order
\* of the edge lists only.
C9_RebuildGivesSameGraph ==
  (first.valid /\ built) => SameGraph(first.vertices, vertices)

\* ------------------------------------------------------------------------
\* C10
\* ------------------------------------------------------------------------

RECURSIVE SumOver(_, _)
SumOver(f, S) ==
  IF S = {} THEN 0
  ELSE LET x == CHOOSE x \in S : TRUE
       IN f[x] + SumOver(f, S \ {x})

\* C10: in a returned graph every edge of v's incoming list has to = v,
\* every edge of v's outgoing list has from = v, a dependency edge is in its
\* to-vertex's incoming list as often as in its from-vertex's outgoing list
\* (once), and the incoming lists hold in all as many entries as the outgoing
\* lists hold dependency edges.
C10_IncidenceConsistent ==
  built =>
    /\ \A v \in Vertices :
         /\ \A e \in Range(Ins(vertices, v)) : e.to = v
         /\ \A e \in Range(Outs(vertices, v)) : e.from = v
    /\ \A e \in GraphEdges : IsDependencyEdge(e) =>
         /\ e.to \in Vertices
         /\ e.from \in Vertices
         /\ Occurrences(Ins(vertices, e.to), e) = 1
         /\ Occurrences(Outs(vertices, e.from), e) = 1
    /\ SumOver([v \in Vertices |-> Len(Ins(vertices, v))], Vertices)
         = SumOver([v \in Vertices |->
                      Cardinality({i \in 1..Len(Outs(vertices, v)) :
                                     IsDependencyEdge(Outs(vertices, v)[i])})],
                   Vertices)

\* A graph was returned for a snapshot all of whose references resolve, with
\* a dependency edge between two distinct vertices and a parent edge.
C10_Witness ==
  /\ built
  /\ ~LookupMisses
  /\ \E e \in GraphEdges : IsDependencyEdge(e) /\ e.to # e.from
  /\ \E e \in GraphEdges : IsParentEdge(e)

====
